---- MODULE Spec2Model ----
(***************************************************************************)
(* A model of the skip list of skiplist.go: the header, the nodes and      *)
(* their forward slices, and the operations Contains, Insert, ForEach and  *)
(* String, each as the sequence of loop iterations its code performs.      *)
(* Levels and slice indices are 0-based as in the source.                  *)
(***************************************************************************)
EXTENDS Integers, Sequences, FiniteSets, TLC

\* ---------------------------------------------------------------- bounds
MaxKey == 2         \* element keys are 1..MaxKey
MaxTag == 2         \* distinguishable elements that compare equal
MaxMaxLevel == 2    \* maxLevel passed to New ranges over 1..MaxMaxLevel
MaxErr == 2         \* distinct failures a ForEach callback may report
MaxRetry == 1       \* comparisons of one call that may answer out of range
MaxRace == 2        \* nodes allocated by unsynchronised Insert calls
MaxRandLevel == 5   \* maxLevel of the lists the level generator is run on

\* ------------------------------------------------------- values and refs
Header == 0                       \* the slice s.head, seen as slice owner 0
Nil == -1                         \* the nil *node
NoVal == <<0, 0>>                 \* the nil interface{} value
NoSlot == <<Nil, Nil>>            \* the nil **node of a fresh updates slice
Procs == {1, 2}                   \* goroutines calling into the list

Keys == 1..MaxKey
Elems == Keys \X (1..MaxTag)      \* an element is <<key, tag>>
MaxNodes == MaxKey + 1            \* nodes the heap may hold
Errs == 1..MaxErr                 \* non-nil errors of a callback; 0 is nil

\* The comparator of newInt64SkipList, on the key of the element.
Compare3(a, b) ==
    IF a[1] < b[1] THEN -1 ELSE IF a[1] = b[1] THEN 0 ELSE 1

VARIABLES
    maxLevel,   \* s.maxLevel
    Compare,    \* s.Compare: "total" (answers -1, 0, 1) or "faulty"
    head,       \* s.head: [0..maxLevel-1 -> node id or Nil]
    val,        \* val[n]: the val of the node at address n
    next,       \* next[n]: its next slice, [0..height-1 -> address or Nil]
    local,      \* local[p]: the locals and position of goroutine p's call
    added,      \* added[k]: the element last inserted with key k, or NoVal
    pre,        \* pre[p]: the list as it was when p's call started
    overlap     \* TRUE once a call started while another was running

list == <<head, val, next, maxLevel>>
vars == <<maxLevel, Compare, head, val, next, local, added, pre, overlap>>

Levels == 0..(maxLevel - 1)
NumNodes == Cardinality(DOMAIN val)

\* The address of the node goroutine p allocates for elem: the program
\* only dereferences addresses and compares them with nil, so the allocator
\* is modelled by one fixed choice among the free addresses.
Addrs == 1..(Cardinality(Procs) * MaxKey)
NewAddr(p, elem) ==
    LET a == (p - 1) * MaxKey + elem[1]
        free == Addrs \ DOMAIN val
    IN IF a \in free THEN a
       ELSE CHOOSE b \in free : \A c \in free : b <= c

\* The slice owned by o: s.head for the header, n.next for node n.
Slice(o) == IF o = Header THEN head ELSE next[o]
SliceLen(o) == Cardinality(DOMAIN Slice(o))

Idle ==
    [pc |-> "idle", op |-> "none", elem |-> NoVal, nodes |-> Header, i |-> 0,
     updates |-> <<>>, level |-> 0, n |-> Nil, cmp |-> 1, bad |-> 0,
     steps |-> 0, reads |-> 0, found |-> FALSE, prev |-> NoVal, err |-> 0,
     calls |-> <<>>, rets |-> <<>>, strValues |-> <<>>, lines |-> <<>>,
     inPtr |-> <<>>, str |-> <<>>, bits |-> <<>>]

\* New(compare, ml): an empty list.
New(ml) ==
    /\ maxLevel = ml
    /\ Compare \in {"total", "faulty"}
    /\ head = [l \in 0..(maxLevel - 1) |-> Nil]
    /\ val = <<>>
    /\ next = <<>>
    /\ local = [p \in Procs |-> Idle]
    /\ added = [k \in Keys |-> NoVal]
    /\ pre = [p \in Procs |-> <<head, val, next, maxLevel>>]
    /\ overlap = FALSE

Init == \E ml \in 1..MaxMaxLevel : New(ml)

\* s.cmp(n, elem): the outcomes the comparison may have.  The nil node is
\* greater than any element without the comparator being called; a faulty
\* comparator may answer 2, at most MaxRetry times in one call.
cmp(p, nd, elem) ==
    IF nd = Nil THEN {1}
    ELSE {Compare3(val[nd], elem)} \cup
         (IF Compare = "faulty" /\ local[p].bad < MaxRetry THEN {2} ELSE {})

Bad(p, c) == IF c \in {-1, 0, 1} THEN local[p].bad ELSE local[p].bad + 1

\* A call of p has begun and has neither returned nor panicked.
Running(p) == local[p].pc \notin {"idle", "done", "panic", "crash"}

\* Goroutine p enters a method with the locals rec.
Others(p) == Procs \ {p}
Begin(p, rec) ==
    /\ local[p].pc = "idle"
    /\ local' = [local EXCEPT ![p] = rec]
    /\ pre' = [pre EXCEPT ![p] = list]
    /\ overlap' = (overlap \/ \E q \in Others(p) : Running(q))

Set(p, rec) == local' = [local EXCEPT ![p] = rec]
Me(p) == local[p]

\* ------------------------------------------------------------- Contains
StartContains(p, e) ==
    /\ Begin(p, [Idle EXCEPT !.pc = "contains", !.op = "Contains",
                             !.elem = e, !.nodes = Header,
                             !.i = maxLevel - 1])
    /\ UNCHANGED <<maxLevel, Compare, head, val, next, added>>

\* ContainsSwitch leaving the whole search at the first greater successor.
ContainsSwitchBreak(p, c) ==
    LET me == Me(p)
        nd == Slice(me.nodes)[me.i]
        m  == [me EXCEPT !.cmp = c, !.bad = Bad(p, c), !.steps = @ + 1]
    IN
    IF c = -1 THEN [m EXCEPT !.nodes = nd]
    ELSE IF c = 0 THEN [m EXCEPT !.found = TRUE, !.pc = "done"]
    ELSE IF c = 1 THEN [m EXCEPT !.i = -1, !.pc = "contains_last"]
    ELSE [m EXCEPT !.pc = "panic"]

\* One evaluation of the switch of the search loop of Contains.
ContainsSwitch(p, c) ==
    LET me == Me(p)
        nd == Slice(me.nodes)[me.i]
        m  == [me EXCEPT !.cmp = c, !.bad = Bad(p, c), !.steps = @ + 1]
    IN
    IF c = -1 THEN [m EXCEPT !.nodes = nd]
    ELSE IF c = 0 THEN [m EXCEPT !.found = TRUE, !.pc = "done"]
    ELSE IF c = 1 THEN
        IF me.i > 0 THEN [m EXCEPT !.i = @ - 1]
        ELSE [m EXCEPT !.i = -1, !.pc = "contains_last"]
    ELSE [m EXCEPT !.pc = "panic"]

\* ContainsStep overwriting the equal node's val, as Insert does.
ContainsStepWrites(p) ==
    /\ Me(p).pc = "contains"
    /\ \E c \in cmp(p, Slice(Me(p).nodes)[Me(p).i], Me(p).elem) :
           /\ Set(p, ContainsSwitch(p, c))
           /\ val' = IF c = 0
                     THEN [val EXCEPT ![Slice(Me(p).nodes)[Me(p).i]] = Me(p).elem]
                     ELSE val
    /\ UNCHANGED <<maxLevel, Compare, head, next, added, pre, overlap>>

ContainsStep(p) ==
    /\ Me(p).pc = "contains"
    /\ IF Me(p).i \in DOMAIN Slice(Me(p).nodes)
       THEN \E c \in cmp(p, Slice(Me(p).nodes)[Me(p).i], Me(p).elem) :
                Set(p, ContainsSwitch(p, c))
       ELSE Set(p, [Me(p) EXCEPT !.pc = "crash"])
    /\ UNCHANGED <<maxLevel, Compare, head, val, next, added, pre, overlap>>

\* n := nodes[0]; return s.cmp(n, elem) == 0
ContainsLast(p) ==
    /\ Me(p).pc = "contains_last"
    /\ \E c \in cmp(p, Slice(Me(p).nodes)[0], Me(p).elem) :
           Set(p, [Me(p) EXCEPT !.n = Slice(Me(p).nodes)[0], !.cmp = c,
                                !.bad = Bad(p, c), !.steps = @ + 1,
                                !.found = (c = 0), !.pc = "done"])
    /\ UNCHANGED <<maxLevel, Compare, head, val, next, added, pre, overlap>>

\* --------------------------------------------------------------- Insert
InFlight == Cardinality({q \in Procs : local[q].op = "Insert"})

\* StartInsert beginning the search at index maxLevel.
StartInsertTop(p, e) ==
    /\ NumNodes + InFlight < MaxNodes
    /\ Begin(p, [Idle EXCEPT !.pc = "insert", !.op = "Insert", !.elem = e,
                             !.updates = [l \in Levels |-> NoSlot],
                             !.nodes = Header, !.i = maxLevel])
    /\ UNCHANGED <<maxLevel, Compare, head, val, next, added>>

\* updates := make([]**node, s.maxLevel); nodes := s.head; i := maxLevel - 1
StartInsert(p, e) ==
    /\ NumNodes + InFlight < MaxNodes
    /\ Begin(p, [Idle EXCEPT !.pc = "insert", !.op = "Insert", !.elem = e,
                             !.updates = [l \in Levels |-> NoSlot],
                             !.nodes = Header, !.i = maxLevel - 1])
    /\ UNCHANGED <<maxLevel, Compare, head, val, next, added>>

\* InsertSwitch reading prev after the node's val was overwritten.
InsertSwitchPrevAfter(p, c) ==
    LET me == Me(p)
        nd == Slice(me.nodes)[me.i]
        m  == [me EXCEPT !.cmp = c, !.bad = Bad(p, c), !.steps = @ + 1]
    IN
    IF c = -1 THEN [m EXCEPT !.nodes = nd]
    ELSE IF c = 0 THEN [m EXCEPT !.prev = me.elem, !.pc = "done"]
    ELSE IF c = 1 THEN
        LET u == [m EXCEPT !.updates[me.i] = <<me.nodes, me.i>>] IN
        IF me.i > 0 THEN [u EXCEPT !.i = @ - 1]
        ELSE [u EXCEPT !.i = -1, !.level = 1, !.pc = "rand"]
    ELSE m

\* InsertSwitch staying on the same slice when the successor is less.
InsertSwitchStays(p, c) ==
    LET me == Me(p)
        nd == Slice(me.nodes)[me.i]
        m  == [me EXCEPT !.cmp = c, !.bad = Bad(p, c), !.steps = @ + 1]
    IN
    IF c = -1 THEN m
    ELSE IF c = 0 THEN [m EXCEPT !.prev = val[nd], !.pc = "done"]
    ELSE IF c = 1 THEN
        LET u == [m EXCEPT !.updates[me.i] = <<me.nodes, me.i>>] IN
        IF me.i > 0 THEN [u EXCEPT !.i = @ - 1]
        ELSE [u EXCEPT !.i = -1, !.level = 1, !.pc = "rand"]
    ELSE m

\* InsertSwitch recording the slot and descending when the successor is
\* less, as if it were greater.
InsertSwitchNoAdvance(p, c) ==
    LET me == Me(p)
        nd == Slice(me.nodes)[me.i]
        m  == [me EXCEPT !.cmp = c, !.bad = Bad(p, c), !.steps = @ + 1]
    IN
    IF c = 0 THEN [m EXCEPT !.prev = val[nd], !.pc = "done"]
    ELSE IF c \in {-1, 1} THEN
        LET u == [m EXCEPT !.updates[me.i] = <<me.nodes, me.i>>] IN
        IF me.i > 0 THEN [u EXCEPT !.i = @ - 1]
        ELSE [u EXCEPT !.i = -1, !.level = 1, !.pc = "rand"]
    ELSE m

\* One evaluation of the switch of the search loop of Insert: the new
\* locals of the call.  The switch has no default case.
InsertSwitch(p, c) ==
    LET me == Me(p)
        nd == Slice(me.nodes)[me.i]
        m  == [me EXCEPT !.cmp = c, !.bad = Bad(p, c), !.steps = @ + 1]
    IN
    IF c = -1 THEN [m EXCEPT !.nodes = nd]
    ELSE IF c = 0 THEN [m EXCEPT !.prev = val[nd], !.pc = "done"]
    ELSE IF c = 1 THEN
        LET u == [m EXCEPT !.updates[me.i] = <<me.nodes, me.i>>] IN
        IF me.i > 0 THEN [u EXCEPT !.i = @ - 1]
        ELSE [u EXCEPT !.i = -1, !.level = 1, !.pc = "rand"]
    ELSE m

\* InsertVal overwriting the val of the first node of the level.
InsertValAtHead(p, c) ==
    LET me == Me(p) IN
    IF c = 0 THEN [val EXCEPT ![head[me.i]] = me.elem] ELSE val

\* The list's values after the switch: case 0 overwrites the node's val.
InsertVal(p, c) ==
    LET me == Me(p)
        nd == Slice(me.nodes)[me.i]
    IN IF c = 0 THEN [val EXCEPT ![nd] = me.elem] ELSE val

InsertStep(p) ==
    /\ Me(p).pc = "insert"
    /\ IF Me(p).i \in DOMAIN Slice(Me(p).nodes)
       THEN \E c \in cmp(p, Slice(Me(p).nodes)[Me(p).i], Me(p).elem) :
                /\ Set(p, InsertSwitch(p, c))
                /\ val' = InsertVal(p, c)
                /\ added' = IF c = 0
                            THEN [added EXCEPT ![Me(p).elem[1]] = Me(p).elem]
                            ELSE added
       ELSE /\ Set(p, [Me(p) EXCEPT !.pc = "crash"])
            /\ UNCHANGED <<val, added>>
    /\ UNCHANGED <<maxLevel, Compare, head, next, pre, overlap>>

\* RandLevel with the loop test level <= s.maxLevel.
RandLevelOffByOne(p) ==
    /\ Me(p).pc = "rand"
    /\ IF Me(p).level <= maxLevel
       THEN \E rb \in {"err", "one", "zero"} :
              LET m == [Me(p) EXCEPT !.reads = @ + 1, !.steps = @ + 1] IN
              IF rb = "err" THEN Set(p, [m EXCEPT !.pc = "panic"])
              ELSE IF rb = "one"
              THEN Set(p, [m EXCEPT !.level = @ + 1, !.bits = Append(@, 1)])
              ELSE Set(p, [m EXCEPT !.pc = "alloc", !.bits = Append(@, 0)])
       ELSE Set(p, [Me(p) EXCEPT !.steps = @ + 1, !.pc = "alloc"])
    /\ UNCHANGED <<maxLevel, Compare, head, val, next, added, pre, overlap>>

\* RandLevel raising the level on a 0 bit and stopping on a 1 bit.
RandLevelInverted(p) ==
    /\ Me(p).pc = "rand"
    /\ IF Me(p).level < maxLevel
       THEN \E rb \in {"err", "one", "zero"} :
              LET m == [Me(p) EXCEPT !.reads = @ + 1, !.steps = @ + 1] IN
              IF rb = "err" THEN Set(p, [m EXCEPT !.pc = "panic"])
              ELSE IF rb = "zero"
              THEN Set(p, [m EXCEPT !.level = @ + 1, !.bits = Append(@, 0)])
              ELSE Set(p, [m EXCEPT !.pc = "alloc", !.bits = Append(@, 1)])
       ELSE Set(p, [Me(p) EXCEPT !.steps = @ + 1, !.pc = "alloc"])
    /\ UNCHANGED <<maxLevel, Compare, head, val, next, added, pre, overlap>>

\* One test of the loop of randLevel, and one rand.Read when it is entered:
\* the read fails, or yields a byte whose low bit is 1 or 0; bits records
\* the low bits read so far.
RandLevel(p) ==
    /\ Me(p).pc = "rand"
    /\ IF Me(p).level < maxLevel
       THEN \E rb \in {"err", "one", "zero"} :
              LET m == [Me(p) EXCEPT !.reads = @ + 1, !.steps = @ + 1] IN
              IF rb = "err" THEN Set(p, [m EXCEPT !.pc = "panic"])
              ELSE IF rb = "one"
              THEN Set(p, [m EXCEPT !.level = @ + 1, !.bits = Append(@, 1)])
              ELSE Set(p, [m EXCEPT !.pc = "alloc", !.bits = Append(@, 0)])
       ELSE Set(p, [Me(p) EXCEPT !.steps = @ + 1, !.pc = "alloc"])
    /\ UNCHANGED <<maxLevel, Compare, head, val, next, added, pre, overlap>>

\* Alloc making the next slice one longer than the drawn level.
AllocTaller(p) ==
    /\ Me(p).pc = "alloc"
    /\ val' = val @@ (NewAddr(p, Me(p).elem) :> Me(p).elem)
    /\ next' = next @@ (NewAddr(p, Me(p).elem) :>
                            [l \in 0..Me(p).level |-> Nil])
    /\ Set(p, [Me(p) EXCEPT !.n = NewAddr(p, Me(p).elem), !.i = 0,
                            !.steps = @ + 1,
                            !.pc = "splice_read"])
    /\ UNCHANGED <<maxLevel, Compare, head, added, pre, overlap>>

\* n := &node{val: elem, next: make([]*node, level)}
Alloc(p) ==
    /\ Me(p).pc = "alloc"
    /\ val' = val @@ (NewAddr(p, Me(p).elem) :> Me(p).elem)
    /\ next' = next @@ (NewAddr(p, Me(p).elem) :>
                            [l \in 0..(Me(p).level - 1) |-> Nil])
    /\ Set(p, [Me(p) EXCEPT !.n = NewAddr(p, Me(p).elem), !.i = 0,
                            !.steps = @ + 1,
                            !.pc = "splice_read"])
    /\ UNCHANGED <<maxLevel, Compare, head, added, pre, overlap>>

\* SpliceRead leaving n.next[i] nil: the old successor is forgotten.
SpliceReadForgets(p) ==
    /\ Me(p).pc = "splice_read"
    /\ Set(p, [Me(p) EXCEPT !.steps = @ + 1, !.pc = "splice_write"])
    /\ UNCHANGED <<maxLevel, Compare, head, val, next, added, pre, overlap>>

\* SpliceRead taking the successor from updates[0] at every level.
SpliceReadLevelZero(p) ==
    /\ Me(p).pc = "splice_read"
    /\ LET u == Me(p).updates[0] IN
       /\ next' = [next EXCEPT ![Me(p).n][Me(p).i] = Slice(u[1])[u[2]]]
       /\ Set(p, [Me(p) EXCEPT !.steps = @ + 1, !.pc = "splice_write"])
    /\ UNCHANGED <<maxLevel, Compare, head, val, added, pre, overlap>>

\* n.next[i] = *updates[i]
SpliceRead(p) ==
    /\ Me(p).pc = "splice_read"
    /\ LET u == IF Me(p).i \in DOMAIN Me(p).updates
                THEN Me(p).updates[Me(p).i] ELSE NoSlot
       IN
       IF u = NoSlot
       THEN /\ Set(p, [Me(p) EXCEPT !.pc = "crash"])
            /\ UNCHANGED next
       ELSE /\ next' = [next EXCEPT ![Me(p).n][Me(p).i] = Slice(u[1])[u[2]]]
            /\ Set(p, [Me(p) EXCEPT !.steps = @ + 1, !.pc = "splice_write"])
    /\ UNCHANGED <<maxLevel, Compare, head, val, added, pre, overlap>>

\* SpliceWrite storing n in the header's slot instead of *updates[i].
SpliceWriteAtHeader(p) ==
    /\ Me(p).pc = "splice_write"
    /\ head' = [head EXCEPT ![Me(p).i] = Me(p).n]
    /\ IF Me(p).i + 1 >= Me(p).level
       THEN /\ Set(p, [Me(p) EXCEPT !.steps = @ + 1, !.prev = NoVal,
                                    !.pc = "done"])
            /\ added' = [added EXCEPT ![Me(p).elem[1]] = Me(p).elem]
       ELSE /\ Set(p, [Me(p) EXCEPT !.steps = @ + 1, !.i = @ + 1,
                                    !.pc = "splice_read"])
            /\ UNCHANGED added
    /\ UNCHANGED <<maxLevel, Compare, val, next, pre, overlap>>

\* SpliceWrite leaving the loop after the first level.
SpliceWriteOnce(p) ==
    /\ Me(p).pc = "splice_write"
    /\ LET u == Me(p).updates[Me(p).i] IN
       IF u[1] = Header
       THEN /\ head' = [head EXCEPT ![u[2]] = Me(p).n]
            /\ UNCHANGED next
       ELSE /\ next' = [next EXCEPT ![u[1]][u[2]] = Me(p).n]
            /\ UNCHANGED head
    /\ Set(p, [Me(p) EXCEPT !.steps = @ + 1, !.prev = NoVal, !.pc = "done"])
    /\ added' = [added EXCEPT ![Me(p).elem[1]] = Me(p).elem]
    /\ UNCHANGED <<maxLevel, Compare, val, pre, overlap>>

\* *updates[i] = n, and the test of the loop over n.next
SpliceWrite(p) ==
    /\ Me(p).pc = "splice_write"
    /\ LET u == Me(p).updates[Me(p).i]
           last == Me(p).i + 1 >= Me(p).level
       IN
       /\ IF u[1] = Header
          THEN /\ head' = [head EXCEPT ![u[2]] = Me(p).n]
               /\ UNCHANGED next
          ELSE /\ next' = [next EXCEPT ![u[1]][u[2]] = Me(p).n]
               /\ UNCHANGED head
       /\ IF last
          THEN /\ Set(p, [Me(p) EXCEPT !.steps = @ + 1, !.prev = NoVal,
                                       !.pc = "done"])
               /\ added' = [added EXCEPT ![Me(p).elem[1]] = Me(p).elem]
          ELSE /\ Set(p, [Me(p) EXCEPT !.steps = @ + 1, !.i = @ + 1,
                                       !.pc = "splice_read"])
               /\ UNCHANGED added
    /\ UNCHANGED <<maxLevel, Compare, val, pre, overlap>>

\* -------------------------------------------------------------- ForEach
StartForEach(p) ==
    /\ Begin(p, [Idle EXCEPT !.pc = "foreach", !.op = "ForEach",
                             !.n = head[0]])
    /\ UNCHANGED <<maxLevel, Compare, head, val, next, added>>

\* ForEachStep keeping the first error but going on to the end of the list.
ForEachStepGoesOn(p) ==
    /\ Me(p).pc = "foreach"
    /\ IF Me(p).n = Nil
       THEN Set(p, [Me(p) EXCEPT !.steps = @ + 1, !.pc = "done"])
       ELSE \E err \in {0} \cup Errs :
              Set(p, [Me(p) EXCEPT !.calls = Append(@, val[Me(p).n]),
                                   !.rets = Append(@, err),
                                   !.steps = @ + 1,
                                   !.err = IF @ = 0 THEN err ELSE @,
                                   !.n = next[Me(p).n][0]])
    /\ UNCHANGED <<maxLevel, Compare, head, val, next, added, pre, overlap>>

\* One test of the loop of ForEach and, when it is entered, one call of the
\* callback, which answers nil (0) or an error.
ForEachStep(p) ==
    /\ Me(p).pc = "foreach"
    /\ IF Me(p).n = Nil
       THEN Set(p, [Me(p) EXCEPT !.err = 0, !.steps = @ + 1, !.pc = "done"])
       ELSE \E err \in {0} \cup Errs :
              LET m == [Me(p) EXCEPT !.calls = Append(@, val[Me(p).n]),
                                     !.rets = Append(@, err),
                                     !.steps = @ + 1]
              IN IF err # 0
                 THEN Set(p, [m EXCEPT !.err = err, !.pc = "done"])
                 ELSE Set(p, [m EXCEPT !.n = next[Me(p).n][0]])
    /\ UNCHANGED <<maxLevel, Compare, head, val, next, added, pre, overlap>>

\* --------------------------------------------------------------- String
\* Text is a sequence of one-character strings.
minValueLen == 5
Repeat(c, k) == [j \in 1..k |-> c]
Digit(d) == <<"0", "1", "2", "3", "4", "5", "6", "7", "8", "9">>[d + 1]

\* fmt.Sprintf("%v", x) of an element and of a small int
Format(v) == <<"{", Digit(v[1]), " ", Digit(v[2]), "}">>
FormatInt(k) == <<Digit(k)>>

\* strings.Join(cells, ""): the first k cells, one after the other
RECURSIVE JoinTo(_, _)
JoinTo(cells, k) == IF k = 0 THEN <<>> ELSE JoinTo(cells, k - 1) \o cells[k]
Join(cells) == CHOOSE r \in {JoinTo(v, Len(v)) : v \in {cells}} : TRUE

\* strings.TrimRight(t, " ")
TrimmedLen(t) ==
    LET keep == {j \in 1..Len(t) : t[j] # " "} IN
    IF keep = {} THEN 0 ELSE CHOOSE j \in keep : \A k \in keep : k <= j
TrimRight(t) ==
    CHOOSE r \in {SubSeq(v, 1, TrimmedLen(v)) : v \in {t}} : TRUE

StartString(p) ==
    /\ Begin(p, [Idle EXCEPT !.pc = "str_values", !.op = "String",
                             !.strValues = <<Repeat(" ", minValueLen)>>,
                             !.n = head[0]])
    /\ UNCHANGED <<maxLevel, Compare, head, val, next, added>>

\* s := fmt.Sprintf(" %v ", cur.val), padded to minValueLen
StrValue(v) ==
    LET s == <<" ">> \o Format(v) \o <<" ">> IN
    IF Len(s) < minValueLen THEN s \o Repeat(" ", minValueLen - Len(s)) ELSE s

\* One test of the first loop of String and, when it is entered, one value;
\* on leaving it lines, inPtr, i and cur are set up.
StringValues(p) ==
    /\ Me(p).pc = "str_values"
    /\ IF Me(p).n # Nil
       THEN Set(p, [Me(p) EXCEPT
                       !.strValues = Append(@, StrValue(val[Me(p).n])),
                       !.steps = @ + 1, !.n = next[Me(p).n][0]])
       ELSE Set(p, [Me(p) EXCEPT
                       !.lines = [l \in 0..maxLevel |->
                                     IF l = 0 THEN Me(p).strValues ELSE <<>>],
                       !.inPtr = [l \in Levels |-> FALSE],
                       !.steps = @ + 1,
                       !.i = -1, !.nodes = Header, !.pc = "str_cells"])
    /\ UNCHANGED <<maxLevel, Compare, head, val, next, added, pre, overlap>>

\* Segment leaving inPtr[lvl] as it was after drawing an outgoing pointer.
SegmentForgetsInPtr(cur, lvl, in) ==
    IF SliceLen(cur) <= lvl
    THEN [segment |-> <<>>, pad |-> IF in THEN "-" ELSE " ", inPtr |-> in]
    ELSE IF Slice(cur)[lvl] = Nil
    THEN [segment |-> IF in THEN <<">", "|", "n", "i", "l", " ">>
                            ELSE <<" ", "|", "n", "i", "l", " ">>,
          pad |-> " ", inPtr |-> FALSE]
    ELSE [segment |-> IF in THEN <<">", "|", "-">> ELSE <<" ", "|", "-">>,
          pad |-> "-", inPtr |-> in]

\* Segment leaving inPtr[lvl] set after drawing a nil pointer.
SegmentKeepsInPtr(cur, lvl, in) ==
    IF SliceLen(cur) <= lvl
    THEN [segment |-> <<>>, pad |-> IF in THEN "-" ELSE " ", inPtr |-> in]
    ELSE IF Slice(cur)[lvl] = Nil
    THEN [segment |-> IF in THEN <<">", "|", "n", "i", "l", " ">>
                            ELSE <<" ", "|", "n", "i", "l", " ">>,
          pad |-> " ", inPtr |-> in]
    ELSE [segment |-> IF in THEN <<">", "|", "-">> ELSE <<" ", "|", "-">>,
          pad |-> "-", inPtr |-> TRUE]

\* The segment drawn for slice cur at level lvl before padding, the padding
\* character, and inPtr[lvl] afterwards.
Segment(cur, lvl, in) ==
    IF SliceLen(cur) <= lvl
    THEN [segment |-> <<>>, pad |-> IF in THEN "-" ELSE " ", inPtr |-> in]
    ELSE IF Slice(cur)[lvl] = Nil
    THEN [segment |-> IF in THEN <<">", "|", "n", "i", "l", " ">>
                            ELSE <<" ", "|", "n", "i", "l", " ">>,
          pad |-> " ", inPtr |-> FALSE]
    ELSE [segment |-> IF in THEN <<">", "|", "-">> ELSE <<" ", "|", "-">>,
          pad |-> "-", inPtr |-> TRUE]

\* The cell appended to lines[lvl+1]: the segment padded to len(curValue).
Cell(cur, lvl, in, curValue) ==
    LET g == Segment(cur, lvl, in) IN
    IF Len(curValue) > Len(g.segment)
    THEN g.segment \o Repeat(g.pad, Len(curValue) - Len(g.segment))
    ELSE g.segment

\* Assemble final result.
Assemble(lines) ==
    <<"{", "m", "a", "x", "L", "e", "v", "e", "l", ":", " ">>
        \o FormatInt(maxLevel)
        \o <<",", " ", "n", "o", "d", "e", "s", ":", "\n">>
        \o Join([k \in 1..(maxLevel + 1) |->
                    TrimRight(Join(lines[k - 1])) \o <<"\n">>])
        \o <<"}">>

\* One iteration of the loop over cur in String; when cur becomes nil the
\* result is assembled and returned.
StringCells(p) ==
    /\ Me(p).pc = "str_cells"
    /\ LET me == Me(p)
           cur == me.nodes
           curValue == IF me.i = -1 THEN Repeat(" ", minValueLen)
                       ELSE me.strValues[me.i + 1]
           lines == [l \in 0..maxLevel |->
                        IF l = 0 THEN me.lines[0]
                        ELSE Append(me.lines[l],
                                    Cell(cur, l - 1, me.inPtr[l - 1], curValue))]
           m == [me EXCEPT
                    !.lines = lines,
                    !.inPtr = [l \in Levels |-> Segment(cur, l, me.inPtr[l]).inPtr],
                    !.i = @ + 1, !.steps = @ + 1]
       IN IF Slice(cur)[0] = Nil
          THEN Set(p, [m EXCEPT !.str = Assemble(lines), !.pc = "done"])
          ELSE Set(p, [m EXCEPT !.nodes = Slice(cur)[0]])
    /\ UNCHANGED <<maxLevel, Compare, head, val, next, added, pre, overlap>>

\* The call returns (or its panic is recovered by the caller).
Return(p) ==
    /\ Me(p).pc \in {"done", "panic"}
    /\ Set(p, Idle)
    /\ UNCHANGED <<maxLevel, Compare, head, val, next, added, pre, overlap>>

\* A call runs on its caller's goroutine until it returns.
Progress(p) ==
    \/ ContainsStep(p)
    \/ ContainsLast(p)
    \/ InsertStep(p)
    \/ RandLevel(p)
    \/ Alloc(p)
    \/ SpliceRead(p)
    \/ SpliceWrite(p)
    \/ ForEachStep(p)
    \/ StringValues(p)
    \/ StringCells(p)

\* ------------------------------------------------------------ the list
\* The nodes met by following forward pointers at level l from nd, at most
\* fuel of them.
RECURSIVE Walk(_, _, _)
Walk(nd, l, fuel) ==
    IF nd = Nil \/ fuel = 0 THEN <<>>
    ELSE <<nd>> \o Walk(next[nd][l], l, fuel - 1)

Chain(l) == Walk(head[l], l, NumNodes + 1)
ChainVals(l) == [j \in 1..Len(Chain(l)) |-> val[Chain(l)[j]]]
Range(f) == {f[x] : x \in DOMAIN f}
Done(p, op) == local[p].pc = "done" /\ local[p].op = op
AddedKeys == {k \in Keys : added[k] # NoVal}

\* C1: Contains(V) returns true exactly when some element comparing equal to
\* V was inserted before; so false on the empty list, true after Insert(V).
ContainsIffInserted ==
    \A p \in Procs : Done(p, "Contains") =>
        (local[p].found <=> local[p].elem[1] \in AddedKeys)

ContainsFindsDeepElement ==
    \E p \in Procs :
        /\ Done(p, "Contains") /\ local[p].found
        /\ NumNodes = MaxKey /\ maxLevel > 1
        /\ local[p].elem[1] = MaxKey

\* C2: Insert(V) returns nil exactly when no element equal to V was stored;
\* otherwise it returns the element last inserted equal to V, and in both
\* cases V is what the list stores for its key afterwards.
InsertReturnsPrevious ==
    [][\A p \in Procs :
          (local[p].op = "Insert" /\ local[p].pc # "done"
                                  /\ local'[p].pc = "done")
          => /\ local'[p].prev = added[local[p].elem[1]]
             /\ (local'[p].prev = NoVal) <=> (local[p].elem[1] \notin AddedKeys)
             /\ added'[local[p].elem[1]] = local[p].elem
             /\ local[p].elem \in Range(ChainVals(0))']_vars

InsertReplacedEqual ==
    \E p \in Procs :
        /\ Done(p, "Insert")
        /\ local[p].prev # NoVal /\ local[p].prev # local[p].elem
        /\ local[p].elem \in Range(ChainVals(0))

\* C3: a ForEach whose callback never fails calls it once per distinct
\* inserted key, with the element stored for it, in strictly ascending order.
ForEachSortedOnce ==
    \A p \in Procs : (Done(p, "ForEach") /\ local[p].err = 0) =>
        LET calls == local[p].calls IN
        /\ \A j \in 1..(Len(calls) - 1) : Compare3(calls[j], calls[j + 1]) = -1
        /\ Range(calls) = {added[k] : k \in AddedKeys}
        /\ Len(calls) = Cardinality(AddedKeys)

ForEachVisitedAll ==
    \E p \in Procs :
        /\ Done(p, "ForEach") /\ local[p].err = 0
        /\ Len(local[p].calls) = MaxKey
        /\ \E j \in 1..MaxKey : local[p].calls[j][2] > 1

\* C4: ForEach calls the callback on the elements in ascending order up to
\* and including the first one it fails on, on none after it, and returns
\* that failure; it returns nil after the whole list when none fails.
ForEachStopsAtFailure ==
    \A p \in Procs : local[p].op = "ForEach" =>
        LET calls == local[p].calls
            rets == local[p].rets
            all == ChainVals(0)
        IN
        /\ Len(calls) <= Len(all) /\ calls = SubSeq(all, 1, Len(calls))
        /\ Len(rets) = Len(calls)
        /\ \A j \in 1..(Len(rets) - 1) : rets[j] = 0
        /\ local[p].pc = "done" =>
              IF local[p].err = 0
              THEN calls = all /\ \A j \in 1..Len(rets) : rets[j] = 0
              ELSE Len(rets) > 0 /\ rets[Len(rets)] = local[p].err

ForEachFailedMidway ==
    \E p \in Procs :
        /\ Done(p, "ForEach") /\ local[p].err # 0
        /\ Len(local[p].calls) = 1 /\ NumNodes = MaxKey

\* C5: Contains, ForEach and String leave the header, every node's value
\* and forward slice, maxLevel and the set of nodes as they found them.
ReadersLeaveList ==
    \A p \in Procs :
        local[p].op \in {"Contains", "ForEach", "String"} => list = pre[p]

ReaderDoneOnList ==
    \E p \in Procs :
        /\ Done(p, "Contains") /\ local[p].found
        /\ local[p].elem # val[Slice(local[p].nodes)[local[p].i]]

\* C6: an Insert whose comparator answered outside {-1, 0, 1} has panicked,
\* with the list as it was before the call.
InsertPanicsOnBadCompare ==
    \A p \in Procs :
        (local[p].op = "Insert" /\ local[p].cmp \notin {-1, 0, 1})
        => (local[p].pc = "panic" /\ list = pre[p])

\* C7: a Contains whose comparator answered outside {-1, 0, 1} has panicked
\* and returned neither true nor false.
ContainsPanicsOnBadCompare ==
    \A p \in Procs :
        (local[p].op = "Contains" /\ local[p].cmp \notin {-1, 0, 1})
        => local[p].pc = "panic"

\* C8: when Insert panics on a failed rand.Read the list is as before the
\* call and no node was allocated; with maxLevel = 1 rand.Read is not called.
RandFailureLeavesList ==
    \A p \in Procs :
        /\ (local[p].op = "Insert" /\ local[p].pc = "panic")
           => /\ list = pre[p]
              /\ local[p].n = Nil
              /\ local[p].reads >= 1
        /\ maxLevel = 1 => local[p].reads = 0

RandFailedAfterSearch ==
    \E p \in Procs :
        /\ local[p].op = "Insert" /\ local[p].pc = "panic"
        /\ local[p].reads = maxLevel - 1
        /\ local[p].nodes # Header
        /\ NumNodes >= 1

\* C9: with a comparator answering -1, 0 or 1, each call of Insert, Contains,
\* ForEach and String ends within a number of steps bounded by the number of
\* nodes and maxLevel: a running call can always take a step, each of its
\* steps adds one to its step count, and the count never exceeds the bound.

StepBound(p) ==
    LET N == NumNodes
        op == local[p].op
    IN IF op = "Contains" THEN N + maxLevel + 1
       ELSE IF op = "Insert" THEN N + 4 * maxLevel
       ELSE IF op = "ForEach" THEN N + 1
       ELSE IF op = "String" THEN 2 * N + 2
       ELSE 0

StepsBounded ==
    \A p \in Procs :
        Compare = "total" => /\ local[p].steps <= StepBound(p)
                             /\ local[p].pc # "crash"
                             /\ Running(p) => ENABLED Progress(p)

CallsTerminate ==
    /\ []StepsBounded
    /\ [][\A p \in Procs :
             (Running(p) /\ local'[p] # local[p])
             => local'[p].steps = local[p].steps + 1]_vars

LongCallEnded ==
    \E p \in Procs :
        /\ Done(p, "Insert") /\ Compare = "total"
        /\ local[p].steps = StepBound(p)
        /\ NumNodes = MaxKey /\ maxLevel > 1

\* C10: Insert calls that do not overlap keep the list sound, and two that
\* overlap can leave it unsound: an element whose Insert returned nil is on
\* no chain.
StrictlyIncreasing(l) ==
    \A j \in 1..(Len(ChainVals(l)) - 1) :
        Compare3(ChainVals(l)[j], ChainVals(l)[j + 1]) = -1

Quiet == \A p \in Procs : ~Running(p)
Sound ==
    /\ \A l \in Levels : StrictlyIncreasing(l)
    /\ Range(ChainVals(0)) = {added[k] : k \in AddedKeys}

ExclusiveInsertsKeepList == (Quiet /\ ~overlap) => Sound

RaceLosesInsert ==
    /\ Quiet /\ overlap
    /\ \A p \in Procs : Done(p, "Insert") /\ local[p].prev = NoVal
    /\ \E p \in Procs : local[p].elem \notin Range(ChainVals(0))
    /\ \A l \in Levels : StrictlyIncreasing(l)

\* No Insert is between allocating its node and linking its last level.
Stable == \A p \in Procs : local[p].pc \notin {"splice_read", "splice_write"}
Height(n) == SliceLen(n)

\* C11: with maxLevel = 1 every node has height 1 and no random bit is
\* drawn, and the list is a sorted singly-linked list: outside a splice the
\* one chain holds exactly the elements last inserted, in strictly ascending
\* order; Contains answers by membership, a finished Insert either linked a
\* new node for a new key or returned an element of its key, and ForEach
\* visits the stored elements in ascending order.
PlainSortedList ==
    maxLevel = 1 =>
        /\ \A n \in DOMAIN next : DOMAIN next[n] = {0}
        /\ DOMAIN head = {0}
        /\ \A p \in Procs : local[p].reads = 0 /\ local[p].level <= 1
        /\ Stable => /\ Sound
                     /\ Len(Chain(0)) = NumNodes
                     /\ Range(Chain(0)) = DOMAIN val
        /\ ContainsIffInserted
        /\ ForEachSortedOnce
        /\ \A p \in Procs : Done(p, "Insert") =>
               /\ val[CHOOSE n \in DOMAIN val : val[n][1] = local[p].elem[1]]
                     = local[p].elem
               /\ IF local[p].prev = NoVal
                  THEN local[p].n \in Range(Chain(0))
                  ELSE local[p].n = Nil /\ local[p].prev[1] = local[p].elem[1]

PlainListFilled ==
    \E p \in Procs :
        /\ maxLevel = 1 /\ NumNodes = MaxKey
        /\ Done(p, "ForEach") /\ local[p].err = 0
        /\ Len(local[p].calls) = MaxKey
        /\ \E k \in Keys : added[k][2] > 1

\* The positions String marches across: the header, then the nodes of the
\* level-0 chain; position j takes part in level l when its slice reaches l.
Pos == <<Header>> \o Chain(0)
Participates(j, l) == SliceLen(Pos[j]) > l
LastAt(l) ==
    CHOOSE j \in 1..Len(Pos) :
        /\ Participates(j, l)
        /\ \A k \in 1..Len(Pos) : Participates(k, l) => k <= j
HasNil(cell) ==
    \E k \in 1..(Len(cell) - 2) :
        cell[k] = "n" /\ cell[k + 1] = "i" /\ cell[k + 2] = "l"
Blank(cell) == \A k \in 1..Len(cell) : cell[k] = " "
Newlines(t) == Cardinality({k \in 1..Len(t) : t[k] = "\n"})

\* C12: String renders one value row and maxLevel level rows, each with one
\* cell per position (the header, then the stored nodes in ascending
\* order); each level row has exactly one nil marker, at the last position
\* taking part in that level, and only blank cells after it.
StringRowsAndNilMarkers ==
    \A p \in Procs : Done(p, "String") =>
        LET lines == local[p].lines IN
        /\ DOMAIN lines = 0..maxLevel
        /\ Newlines(local[p].str) = maxLevel + 2
        /\ \A r \in 0..maxLevel : Len(lines[r]) = Len(Pos)
        /\ Len(Pos) = NumNodes + 1
        /\ lines[0][1] = Repeat(" ", minValueLen)
        /\ \A j \in 1..Len(Chain(0)) :
              /\ lines[0][j + 1] = StrValue(ChainVals(0)[j])
              /\ j > 1 => Compare3(ChainVals(0)[j - 1], ChainVals(0)[j]) = -1
        /\ \A l \in Levels :
              /\ {j \in 1..Len(Pos) : HasNil(lines[l + 1][j])} = {LastAt(l)}
              /\ \A j \in (LastAt(l) + 1)..Len(Pos) : Blank(lines[l + 1][j])

StringNilBeforeEnd ==
    \E p \in Procs :
        /\ Done(p, "String") /\ NumNodes = MaxKey
        /\ \E l \in Levels : 1 < LastAt(l) /\ LastAt(l) < Len(Pos)

\* C13: at every level the values met by following the forward pointers
\* from the header are strictly increasing under the comparator, so no
\* chain revisits a node or holds two nodes with equal values; this holds
\* after every Insert, fresh or in place, and at each step in between.
LevelChainsAscend ==
    \A l \in Levels :
        /\ StrictlyIncreasing(l)
        /\ Len(Chain(l)) <= NumNodes
        /\ Cardinality(Range(Chain(l))) = Len(Chain(l))
        /\ Cardinality({v[1] : v \in Range(ChainVals(l))}) = Len(Chain(l))

AscendingAfterBothInserts ==
    \E p \in Procs :
        /\ Done(p, "Insert") /\ local[p].prev # NoVal
        /\ local[p].prev # local[p].elem
        /\ maxLevel > 1 /\ NumNodes = MaxKey
        /\ Len(Chain(maxLevel - 1)) = MaxKey

\* The level-0 chain restricted to the nodes of height > l.
Taller(l) ==
    LET T(n) == Height(n) > l IN SelectSeq(Chain(0), T)

\* C14: after every Insert a node of height H is on the chains of levels
\* 0..H-1 and on no other; so the chain of level L is the level-0 chain
\* restricted to the nodes of height > L, and the nodes on the chain of
\* level L are among those on the chain of level L-1.
NodesOnTheirLevels ==
    Stable =>
        /\ \A n \in DOMAIN val : \A l \in Levels :
              (n \in Range(Chain(l))) <=> (l < Height(n))
        /\ \A n \in DOMAIN val : Height(n) \in 1..maxLevel
        /\ \A l \in Levels : Chain(l) = Taller(l)
        /\ \A l \in Levels \ {0} : Range(Chain(l)) \subseteq Range(Chain(l - 1))

MixedHeightsLinked ==
    \E p \in Procs :
        /\ Done(p, "Insert") /\ local[p].prev = NoVal
        /\ NumNodes = MaxKey /\ maxLevel > 1
        /\ \E n \in DOMAIN val : Height(n) = 1
        /\ \E n \in DOMAIN val : Height(n) = maxLevel
        /\ Chain(maxLevel - 1) # Chain(0)

\* The list as goroutine p's call found it.
OldHead(p) == pre[p][1]
OldVal(p) == pre[p][2]
OldNext(p) == pre[p][3]
OldSlice(p, o) == IF o = Header THEN OldHead(p) ELSE OldNext(p)[o]
OldOwners(p) == {Header} \cup DOMAIN OldVal(p)

\* The owner of the slot a fresh node of p's element is linked behind at
\* level l: the greatest old node of height > l that is less than the
\* element, or the header.
Pred(p, l) ==
    LET less == {n \in DOMAIN OldVal(p) :
                    /\ l \in DOMAIN OldNext(p)[n]
                    /\ Compare3(OldVal(p)[n], local[p].elem) = -1}
    IN IF less = {} THEN Header
       ELSE CHOOSE n \in less :
                \A m \in less : Compare3(OldVal(p)[m], OldVal(p)[n]) # 1

\* C15: an Insert that returns nil for V with drawn height R has added one
\* node of value V and height R; at each level L < R it is linked between
\* the greatest node of height > L less than V (or the header) and that
\* node's former successor; every other forward slot, and the value and
\* height of every old node and of the header, are as before.
FreshInsertFrame ==
    \A p \in Procs : (Done(p, "Insert") /\ local[p].prev = NoVal) =>
        LET n == local[p].n
            R == local[p].level
        IN
        /\ n \notin DOMAIN OldVal(p)
        /\ DOMAIN val = DOMAIN OldVal(p) \cup {n}
        /\ val[n] = local[p].elem /\ DOMAIN next[n] = 0..(R - 1)
        /\ maxLevel = pre[p][4] /\ DOMAIN head = DOMAIN OldHead(p)
        /\ \A m \in DOMAIN OldVal(p) :
              val[m] = OldVal(p)[m] /\ DOMAIN next[m] = DOMAIN OldNext(p)[m]
        /\ \A l \in 0..(R - 1) :
              /\ Slice(Pred(p, l))[l] = n
              /\ next[n][l] = OldSlice(p, Pred(p, l))[l]
        /\ \A o \in OldOwners(p) : \A l \in DOMAIN OldSlice(p, o) :
              (l >= R \/ o # Pred(p, l)) => Slice(o)[l] = OldSlice(p, o)[l]

FreshNodeBetween ==
    \E p \in Procs :
        /\ Done(p, "Insert") /\ local[p].prev = NoVal
        /\ local[p].level > 1
        /\ Pred(p, 0) # Header /\ Pred(p, 1) = Header

\* C16: an Insert of V that meets a stored value equal to V, at whatever
\* level, changes only the val of that one node: it allocates no node,
\* draws no height, and leaves the header's and every node's forward
\* slices, hence every level's chain, as they were.
UpdateInPlaceFrame ==
    \A p \in Procs : (Done(p, "Insert") /\ local[p].prev # NoVal) =>
        LET same == {m \in DOMAIN OldVal(p) :
                        Compare3(OldVal(p)[m], local[p].elem) = 0}
        IN
        /\ Cardinality(same) = 1
        /\ \A m \in same : val[m] = local[p].elem
                            /\ local[p].prev = OldVal(p)[m]
        /\ DOMAIN val = DOMAIN OldVal(p)
        /\ \A m \in DOMAIN val \ same : val[m] = OldVal(p)[m]
        /\ head = OldHead(p) /\ next = OldNext(p) /\ maxLevel = pre[p][4]
        /\ local[p].n = Nil
        /\ local[p].reads = 0 /\ local[p].level = 0

UpdatedAboveBottom ==
    \E p \in Procs :
        /\ Done(p, "Insert") /\ local[p].prev # NoVal
        /\ local[p].prev # local[p].elem
        /\ local[p].i > 0 /\ local[p].nodes # Header
        /\ NumNodes = MaxKey

\* randLevel has returned to p's Insert, which has not returned yet or
\* returned nil.
Drawn(p) ==
    /\ local[p].op = "Insert"
    /\ \/ local[p].pc \in {"alloc", "splice_read", "splice_write"}
       \/ local[p].pc = "done" /\ local[p].prev = NoVal

Min(a, b) == IF a <= b THEN a ELSE b
LeadingOnes(b) ==
    Cardinality({k \in 1..Len(b) : \A j \in 1..k : b[j] = 1})

\* C17: the level generator returns min(maxLevel, 1 + the number of
\* leading 1 bits drawn), a level in 1..maxLevel; it draws at most
\* maxLevel-1 bits, stops at the first 0 bit, and draws none once the level
\* equals maxLevel.
LevelIsCappedRunOfOnes ==
    \A p \in Procs :
        LET b == local[p].bits
            level == local[p].level
        IN
        /\ local[p].pc = "rand" =>
              /\ level = 1 + Len(b) /\ level <= maxLevel
              /\ LeadingOnes(b) = Len(b)
        /\ Drawn(p) =>
              /\ level = Min(maxLevel, 1 + LeadingOnes(b))
              /\ level \in 1..maxLevel
              /\ Len(b) <= maxLevel - 1 /\ local[p].reads = Len(b)
              /\ \A k \in 1..(Len(b) - 1) : b[k] = 1
              /\ level < maxLevel => Len(b) = level /\ b[Len(b)] = 0
              /\ level = maxLevel => Len(b) = maxLevel - 1
                                     /\ LeadingOnes(b) = Len(b)

LevelCapReached ==
    \E p \in Procs :
        /\ Drawn(p) /\ maxLevel = MaxRandLevel
        /\ local[p].level = maxLevel
        /\ local[p].reads = maxLevel - 1

\* randLevel as a function of maxLevel and the low bits of the bytes the
\* random source yields: level is the level so far, k the next byte.
RECURSIVE LevelFrom(_, _, _, _)
LevelFrom(M, tape, level, k) ==
    IF level < M
    THEN IF tape[k] = 1 THEN LevelFrom(M, tape, level + 1, k + 1) ELSE level
    ELSE level

\* LevelOf starting from level 2.
LevelOfFromTwo(M, tape) == LevelFrom(M, tape, 2, 1)

LevelOf(M, tape) == LevelFrom(M, tape, 1, 1)

Tapes(M) == [1..(M - 1) -> {0, 1}]
Heights(M, k) == Cardinality({t \in Tapes(M) : LevelOf(M, t) = k})

\* C18: of the 2^(maxLevel-1) bit sequences of length maxLevel-1, the
\* fraction on which the level generator yields height k is 2^-k for
\* k < maxLevel and 2^-(maxLevel-1) for k = maxLevel; the level an Insert
\* draws is the height of every such sequence that starts with the bits it
\* read.
HeightsAreGeometric ==
    /\ \A k \in 1..maxLevel :
          IF k < maxLevel
          THEN Heights(maxLevel, k) * 2^k = 2^(maxLevel - 1)
          ELSE Heights(maxLevel, k) * 2^(maxLevel - 1) = 2^(maxLevel - 1)
    /\ \A t \in Tapes(maxLevel) : LevelOf(maxLevel, t) \in 1..maxLevel
    /\ \A p \in Procs : Drawn(p) =>
          \A t \in Tapes(maxLevel) :
              SubSeq(t, 1, Len(local[p].bits)) = local[p].bits
              => LevelOf(maxLevel, t) = local[p].level

LevelBelowCapDrawn ==
    \E p \in Procs :
        /\ Drawn(p) /\ maxLevel = MaxRandLevel
        /\ local[p].level = 2 /\ local[p].bits = <<1, 0>>
        /\ Heights(maxLevel, 2) > 1

Owners == {Header} \cup DOMAIN val

\* C19: the searches of Contains and Insert never index a slice out of
\* range nor go through a nil node: at level i the slice the search is on
\* belongs to the header or to a node and is longer than i; and from the
\* end of Insert's search on, every level's update slot is recorded and,
\* once the height is drawn, it is at most maxLevel.
SearchStaysInRange ==
    \A p \in Procs :
        /\ local[p].pc # "crash"
        /\ local[p].pc \in {"contains", "insert"} =>
              /\ local[p].nodes \in Owners
              /\ local[p].i \in 0..(SliceLen(local[p].nodes) - 1)
              /\ local[p].i \in Levels
        /\ local[p].pc = "contains_last" =>
              local[p].nodes \in Owners /\ SliceLen(local[p].nodes) > 0
        /\ local[p].pc \in {"rand", "alloc", "splice_read", "splice_write"} =>
              /\ DOMAIN local[p].updates = Levels
              /\ \A l \in Levels :
                    /\ local[p].updates[l] # NoSlot
                    /\ local[p].updates[l][1] \in Owners
                    /\ local[p].updates[l][2] = l
                    /\ l \in DOMAIN Slice(local[p].updates[l][1])
        /\ local[p].pc \in {"alloc", "splice_read", "splice_write"} =>
              local[p].level \in 1..maxLevel
        /\ local[p].pc \in {"splice_read", "splice_write"} =>
              /\ local[p].i \in 0..(local[p].level - 1)
              /\ SliceLen(local[p].n) = local[p].level

SpliceAfterDeepSearch ==
    \E p \in Procs :
        /\ local[p].pc = "splice_write" /\ local[p].i = maxLevel - 1
        /\ maxLevel > 1 /\ NumNodes = MaxKey
        /\ local[p].updates[0][1] # Header
        /\ local[p].updates[maxLevel - 1][1] = Header

Wire(cell) == Len(cell) > 0 /\ \A k \in 1..Len(cell) : cell[k] = "-"
Rest(cell, from) == SubSeq(cell, from, Len(cell))

\* C20: in String's rendering, at each level every stored node taking part
\* in the level is drawn with the incoming-pointer mark ">", and only the
\* header is drawn without it (" |nil " or " |-"); a position not taking
\* part is drawn as a wire when it lies between a pointer's source and its
\* target, and blank otherwise.
StringMarksAndWires ==
    \A p \in Procs : Done(p, "String") =>
        \A l \in Levels : \A j \in 1..Len(Pos) :
            LET cell == local[p].lines[l + 1][j] IN
            IF Participates(j, l)
            THEN /\ Len(cell) >= minValueLen
                 /\ cell[1] = (IF j = 1 THEN " " ELSE ">")
                 /\ cell[2] = "|"
                 /\ IF j = LastAt(l)
                    THEN SubSeq(cell, 3, 6) = <<"n", "i", "l", " ">>
                         /\ Blank(Rest(cell, 7))
                    ELSE Wire(Rest(cell, 3))
            ELSE IF j < LastAt(l) THEN Wire(cell) ELSE Blank(cell)

StringWireAcrossNode ==
    \E p \in Procs :
        /\ Done(p, "String") /\ NumNodes = MaxKey
        /\ \E l \in Levels : \E j \in 1..Len(Pos) :
              ~Participates(j, l) /\ j < LastAt(l)

\* ------------------------------------------------------- specifications
Call(p) ==
    \/ \E e \in Elems : StartContains(p, e)
    \/ ContainsStep(p)
    \/ ContainsLast(p)
    \/ \E e \in Elems : StartInsert(p, e)
    \/ InsertStep(p)
    \/ RandLevel(p)
    \/ Alloc(p)
    \/ SpliceRead(p)
    \/ SpliceWrite(p)
    \/ StartForEach(p)
    \/ ForEachStep(p)
    \/ StartString(p)
    \/ StringValues(p)
    \/ StringCells(p)
    \/ Return(p)

\* One caller at a time: the list is used with external mutual exclusion.
Next == Call(1)

Spec == Init /\ [][Next]_vars


\* Two goroutines insert with no mutual exclusion; each step of a call is
\* one read or write of the shared list.
InsertCall(p) ==
    \/ \E e \in Keys \X {1} :
          NumNodes + InFlight < MaxRace /\ StartInsert(p, e)
    \/ InsertStep(p)
    \/ RandLevel(p)
    \/ Alloc(p)
    \/ SpliceRead(p)
    \/ SpliceWrite(p)
    \/ Return(p)

InitConc == Init /\ Compare = "total"
NextConc == \E p \in Procs : InsertCall(p)
SpecConc == InitConc /\ [][NextConc]_vars

\* One Insert into the empty list of each maxLevel up to MaxRandLevel: the
\* level generator run on every sequence of bits it can read.
FirstInsert(p) ==
    \/ \E e \in Elems : NumNodes = 0 /\ StartInsert(p, e)
    \/ InsertStep(p)
    \/ RandLevel(p)
    \/ Alloc(p)
    \/ SpliceRead(p)
    \/ SpliceWrite(p)
    \/ Return(p)

InitRand == \E ml \in 1..MaxRandLevel : New(ml)
NextRand == FirstInsert(1)
SpecRand == InitRand /\ [][NextRand]_vars

====
